---- MODULE Spec2Model ----
(***************************************************************************)
(* Smart Inventory dashboard (InventoryHealthPageEnhanced.jsx) and the     *)
(* /ingest - /latest backend it reads from.                                *)
(*                                                                         *)
(* Strings that are searched or collated (sku_id, store_id, the search     *)
(* term) are sequences of one-character strings; the other strings are     *)
(* plain.  JavaScript numbers that can be Infinity, undefined or NaN are   *)
(* tagged values [kind, v].                                                *)
(***************************************************************************)
EXTENDS Integers, Sequences, FiniteSets, TLC

\* ------------------------------------------------------------------------
\* Bounds of the model
\* ------------------------------------------------------------------------
MaxRequests == 3       \* fetchData calls in one session
MaxIngest == 2         \* POST /ingest calls
MaxFilterLen == 3      \* records of a snapshot in SpecFilter
MaxSortLen == 4        \* records of a snapshot in SpecSort
MaxClicks == 3         \* clicks in a row on one column header
MaxViewLen == 2        \* records of a small snapshot in SpecView
MaxExportLen == 2      \* records of a snapshot in SpecExport
MaxEscapeLen == 2      \* records of a snapshot in SpecEscape
MaxSessionRequests == 2  \* fetchData calls in SpecSession

\* ------------------------------------------------------------------------
\* JavaScript values
\* ------------------------------------------------------------------------
Num(n) == [kind |-> "num", v |-> n]
Infinity == [kind |-> "inf", v |-> 0]
NegInfinity == [kind |-> "-inf", v |-> 0]
NaN == [kind |-> "nan", v |-> 0]
UndefinedNum == [kind |-> "undefined", v |-> 0]
\* an absent optional string property (category, city)
Undefined == "undefined"
\* null in a string-or-null state (error)
Null == "null"

\* a subtraction in which Infinity is not a number
MinusMutInfinityNaN(a, b) ==
  IF a.kind # "num" \/ b.kind # "num" THEN NaN ELSE Num(a.v - b.v)

\* a - b on numbers: ToNumber(undefined) is NaN, Infinity - Infinity is NaN
Minus(a, b) ==
  IF a.kind \in {"undefined", "nan"} \/ b.kind \in {"undefined", "nan"} THEN NaN
  ELSE IF a.kind = "inf" THEN (IF b.kind = "inf" THEN NaN ELSE Infinity)
  ELSE IF a.kind = "-inf" THEN (IF b.kind = "-inf" THEN NaN ELSE NegInfinity)
  ELSE IF b.kind = "inf" THEN NegInfinity
  ELSE IF b.kind = "-inf" THEN Infinity
  ELSE Num(a.v - b.v)

\* sign of a comparator result as Array.prototype.sort reads it: NaN is +0
Sign(v) ==
  IF v.kind = "nan" THEN 0
  ELSE IF v.kind = "inf" THEN 1
  ELSE IF v.kind = "-inf" THEN -1
  ELSE IF v.v < 0 THEN -1 ELSE IF v.v > 0 THEN 1 ELSE 0

\* ------------------------------------------------------------------------
\* String.prototype helpers
\* ------------------------------------------------------------------------
ToLowerChar(c) == CASE c = "A" -> "a" [] c = "B" -> "b" [] OTHER -> c

toLowerCase(s) == [i \in 1..Len(s) |-> ToLowerChar(s[i])]

IsSpace(c) == c = " "

RECURSIVE trimStart(_)
trimStart(s) ==
  IF s # <<>> /\ IsSpace(Head(s)) THEN trimStart(Tail(s)) ELSE s

RECURSIVE trimEnd(_)
trimEnd(s) ==
  IF s # <<>> /\ IsSpace(s[Len(s)]) THEN trimEnd(SubSeq(s, 1, Len(s) - 1)) ELSE s

trim(s) == trimEnd(trimStart(s))

\* s.includes(t): t occurs in s at some position
includes(s, t) ==
  \E i \in 0..(Len(s) - Len(t)) : SubSeq(s, i + 1, i + Len(t)) = t

\* Collation weights of localeCompare (root collation): space before digits
\* before letters, letters by alphabet with case a tertiary difference only.
PrimaryWeight(c) ==
  CASE c = " " -> 0 [] c = "1" -> 1 [] c = "2" -> 2
    [] c \in {"a", "A"} -> 3 [] c \in {"b", "B"} -> 4 [] c \in {"S", "s"} -> 5
    [] OTHER -> 6

TertiaryWeight(c) == IF c \in {"A", "B", "S"} THEN 1 ELSE 0

\* lexicographic comparison of two sequences of weights: -1, 0 or 1
RECURSIVE CompareWeights(_, _)
CompareWeights(a, b) ==
  IF a = <<>> /\ b = <<>> THEN 0
  ELSE IF a = <<>> THEN -1
  ELSE IF b = <<>> THEN 1
  ELSE IF Head(a) < Head(b) THEN -1
  ELSE IF Head(a) > Head(b) THEN 1
  ELSE CompareWeights(Tail(a), Tail(b))

PrimaryKey(s) == [i \in 1..Len(s) |-> PrimaryWeight(s[i])]
TertiaryKey(s) == [i \in 1..Len(s) |-> TertiaryWeight(s[i])]

\* a.localeCompare(b) as a number: primary differences decide first, case
\* only between strings equal up to case
localeCompare(a, b) ==
  LET p == CompareWeights(PrimaryKey(a), PrimaryKey(b))
  IN Num(IF p # 0 THEN p ELSE CompareWeights(TertiaryKey(a), TertiaryKey(b)))

\* ------------------------------------------------------------------------
\* PredictionRecord and the values the model draws records from
\* ------------------------------------------------------------------------
SORT_COLUMNS == <<"sku_id", "store_id", "days_to_stockout", "recommended_reorder_quantity">>

ALL == <<"A", "L", "L">>

Rec(sku, store, days, status, qty, cat) ==
  [sku_id |-> sku, store_id |-> store, current_stock |-> 5, avg_daily_sales |-> 1,
   days_to_stockout |-> days, status |-> status,
   recommended_reorder_quantity |-> qty, category |-> cat, city |-> Undefined,
   last_updated |-> 0]

S1 == <<"S", "1">>
S2 == <<"s", "2">>

\* records of different stores, categories, statuses and SKU spellings
FilterUniverse ==
  { Rec(<<"a", "B">>, S1, Num(1), "Critical", Num(5), "X"),
    Rec(<<"A">>, S2, Num(5), "Warning", Num(3), "X"),
    Rec(<<"b", " ", "a">>, S1, Infinity, "Safe", Num(0), Undefined),
    Rec(<<"b">>, S2, Num(2), "Critical", Num(5), "Y") }

\* records whose sort keys tie, differ, are infinite or are absent
SortUniverse ==
  { Rec(<<"a">>, S1, Num(2), "Critical", Num(2), "X"),
    Rec(<<"B">>, S2, Num(2), "Critical", Num(2), "X"),
    Rec(<<"b">>, S1, Infinity, "Safe", UndefinedNum, "X"),
    Rec(<<"A">>, S1, Infinity, "Safe", Num(3), "X"),
    Rec(<<"a", "b">>, S2, Num(9), "Safe", Num(0), "X") }

SeqsUpTo(S, n) == UNION { [1..k -> S] : k \in 0..n }

SearchTerms ==
  { <<>>, <<"a">>, <<" ", "A">>, <<"B", " ">>, <<" ">>, <<"b", " ", "A">> }

StoreFilters == {ALL, S1, S2}
CategoryFilters == {"ALL", "X", "Y"}

\* ------------------------------------------------------------------------
\* The filter and sort effect (useEffect "Apply filters")
\* ------------------------------------------------------------------------
FilterStore(data, storeF) ==
  LET Keep(r) == r.store_id = storeF
  IN IF storeF # ALL THEN SelectSeq(data, Keep) ELSE data

FilterCategory(data, categoryF) ==
  LET Keep(r) == r.category = categoryF
  IN IF categoryF # "ALL" THEN SelectSeq(data, Keep) ELSE data

FilterCritical(data, criticalOnly) ==
  LET Keep(r) == r.status = "Critical"
  IN IF criticalOnly THEN SelectSeq(data, Keep) ELSE data

\* a search that lowers the term but compares it with the SKU as spelled
FilterSearchMutCaseSensitive(data, searchT) ==
  LET term == toLowerCase(trim(searchT))
      Keep(r) == includes(r.sku_id, term)
  IN IF trim(searchT) # <<>> THEN SelectSeq(data, Keep) ELSE data

\* search.trim() is truthy when it is not the empty string
FilterSearch(data, searchT) ==
  LET term == toLowerCase(trim(searchT))
      Keep(r) == includes(toLowerCase(r.sku_id), term)
  IN IF trim(searchT) # <<>> THEN SelectSeq(data, Keep) ELSE data

\* a pipeline whose category filter is an else-branch of the store filter
ApplyFiltersMutElseIf(recs, storeF, categoryF, criticalOnly, searchT) ==
  FilterSearch(
    FilterCritical(
      IF storeF # ALL THEN FilterStore(recs, storeF)
      ELSE FilterCategory(recs, categoryF),
      criticalOnly),
    searchT)

ApplyFilters(recs, storeF, categoryF, criticalOnly, searchT) ==
  FilterSearch(
    FilterCritical(
      FilterCategory(FilterStore(recs, storeF), categoryF),
      criticalOnly),
    searchT)

\* typeof aVal === "string": sku_id and store_id are strings, the other two
\* sortable columns are numbers or undefined
IsStringField(field) == field \in {"sku_id", "store_id"}

\* the comparator handed to data.sort
comparefn(a, b, sortF, sortO) ==
  LET aVal == a[sortF]
      bVal == b[sortF]
  IN IF IsStringField(sortF)
     THEN (IF sortO = "asc" THEN localeCompare(aVal, bVal)
           ELSE localeCompare(bVal, aVal))
     ELSE (IF sortO = "asc" THEN Minus(aVal, bVal) ELSE Minus(bVal, aVal))

SortCompare(a, b, sortF, sortO) == Sign(comparefn(a, b, sortF, sortO))

\* Array.prototype.sort requires a consistent comparator over the values
\* sorted: reflexive, antisymmetric, and transitive in =, < and >.
ConsistentComparator(S, sortF, sortO) ==
  LET C(a, b) == SortCompare(a, b, sortF, sortO)
  IN /\ \A a \in S : C(a, a) = 0
     /\ \A a, b \in S : /\ (C(a, b) < 0) = (C(b, a) > 0)
                        /\ (C(a, b) = 0) = (C(b, a) = 0)
     /\ \A a, b, c \in S :
          /\ (C(a, b) = 0 /\ C(b, c) = 0) => C(a, c) = 0
          /\ (C(a, b) < 0 /\ C(b, c) < 0) => C(a, c) < 0
          /\ (C(a, b) > 0 /\ C(b, c) > 0) => C(a, c) > 0

Range(s) == { s[i] : i \in 1..Len(s) }

\* x placed after every element it does not sort before (stable insertion)
RECURSIVE InsertSorted(_, _, _, _)
InsertSorted(s, x, sortF, sortO) ==
  IF s = <<>> THEN <<x>>
  ELSE IF SortCompare(x, s[Len(s)], sortF, sortO) < 0
       THEN Append(InsertSorted(SubSeq(s, 1, Len(s) - 1), x, sortF, sortO),
                   s[Len(s)])
       ELSE Append(s, x)

\* the elements inserted one after the other (the sorted front is bound to
\* its value before the insertion reads it)
RECURSIVE StableSort(_, _, _)
StableSort(data, sortF, sortO) ==
  IF data = <<>> THEN <<>>
  ELSE CHOOSE sorted \in
         { InsertSorted(front, data[Len(data)], sortF, sortO) :
             front \in {StableSort(SubSeq(data, 1, Len(data) - 1), sortF, sortO)} } :
         TRUE

Arrangements(data) ==
  LET n == Len(data)
      P == { p \in [1..n -> 1..n] : \A i, j \in 1..n : i # j => p[i] # p[j] }
  IN { [i \in 1..n |-> data[p[i]]] : p \in P }

\* data.sort(comparefn): the stable sorted order when the comparator is
\* consistent over the elements; otherwise the order is implementation-defined
\* and any arrangement of the elements can result.
ArraySort(data, sortF, sortO) ==
  IF ConsistentComparator(Range(data), sortF, sortO)
  THEN {StableSort(data, sortF, sortO)}
  ELSE Arrangements(data)

\* every value setFiltered can receive for the given recs and criteria
ViewOutcomes(recs, storeF, categoryF, criticalOnly, term, sortF, sortO) ==
  ArraySort(ApplyFilters(recs, storeF, categoryF, criticalOnly, term), sortF, sortO)

\* ------------------------------------------------------------------------
\* State
\* ------------------------------------------------------------------------
VARIABLES
  LAST_PREDICTIONS,    \* backend: the stored batch
  LAST_UPDATED_AT,     \* backend: time of the last ingest, 0 when none
  posted,              \* the batch of the last POST /ingest, <<>> before the first
  records, filtered, lastUpdated, loading, error,
  storeFilter, categoryFilter, search, showCriticalOnly, sortField, sortOrder,
  searchTimeoutRef,    \* "none", or "pending" / "fired" for the last timer set
  abortControllerRef,  \* index in requests of the current controller, 0 for null
  requests,            \* every fetchData call: its fetch, signal and outcome
  phase,               \* "init", "mounted", "unmounted"; "render" before an effect
  headerClicks,        \* clicks in a row on the header of sortField since it
                       \* was clicked as a new header, 0 when it never was
  csv,                 \* text of the document the last downloadCSV produced, <<>> for none
  notice               \* message of the alert the last downloadCSV raised, or Null

backend == <<LAST_PREDICTIONS, LAST_UPDATED_AT, posted>>
visible == <<records, lastUpdated, loading, error>>
filters == <<storeFilter, categoryFilter, search, showCriticalOnly>>
sorting == <<sortField, sortOrder>>
criteria == <<filters, sorting>>
fetching == <<abortControllerRef, requests>>
\* what the operator's clicks have done so far
history == <<headerClicks, csv, notice>>
vars ==
  <<backend, visible, filtered, criteria, searchTimeoutRef, fetching, phase, history>>

NoData == [predictions |-> <<>>, last_updated |-> 0]

\* batches the producer sends
BatchA ==
  << Rec(<<"a", "B">>, S1, Num(1), "Critical", Num(5), "X"),
     Rec(<<"A">>, S2, Num(5), "Warning", Num(3), "X") >>
BatchB == << Rec(<<"b">>, S2, Num(2), "Critical", Num(5), "Y") >>
Batches == {BatchA, BatchB, <<>>}

\* what the operator types in the session of Spec
TypedTerms == { <<>>, <<" ", "A">> }

Init ==
  /\ LAST_PREDICTIONS = <<>>
  /\ LAST_UPDATED_AT = 0
  /\ posted = <<>>
  /\ records = <<>>
  /\ filtered = <<>>
  /\ lastUpdated = 0
  /\ loading = FALSE
  /\ error = Null
  /\ storeFilter = ALL
  /\ categoryFilter = "ALL"
  /\ search = <<>>
  /\ showCriticalOnly = FALSE
  /\ sortField = "sku_id"
  /\ sortOrder = "asc"
  /\ searchTimeoutRef = "none"
  /\ abortControllerRef = 0
  /\ requests = <<>>
  /\ phase = "init"
  /\ headerClicks = 0
  /\ csv = <<>>
  /\ notice = Null

\* ------------------------------------------------------------------------
\* Backend: POST /ingest and GET /latest
\* ------------------------------------------------------------------------
\* a store that appends the batch to what it holds
ReplaceMutAppend(batch) ==
  /\ LAST_PREDICTIONS' = LAST_PREDICTIONS \o batch
  /\ LAST_UPDATED_AT' = LAST_UPDATED_AT + 1

\* replace(records): the whole snapshot is swapped and stamped
Replace(batch) ==
  /\ LAST_PREDICTIONS' = batch
  /\ LAST_UPDATED_AT' = LAST_UPDATED_AT + 1

Ingest(batch) ==
  /\ LAST_UPDATED_AT < MaxIngest
  /\ Replace(batch)
  /\ posted' = batch
  /\ UNCHANGED <<visible, filtered, criteria, searchTimeoutRef, fetching, phase,
                 history>>

\* latest(): the body GET /latest answers with
Latest == [predictions |-> LAST_PREDICTIONS, last_updated |-> LAST_UPDATED_AT]

\* ------------------------------------------------------------------------
\* fetchData
\* ------------------------------------------------------------------------
\* nothing held: what a request that has ended or been cancelled keeps
NoHeld == <<<<>>, 0, <<>>>>

\* a call of fetchData: where its promise chain stands, its signal, the body
\* it has received, how it ended, and the state it started from
NewRequest ==
  [stage |-> "fetch", aborted |-> FALSE, data |-> NoData, outcome |-> "none",
   held |-> <<records, lastUpdated, filtered>>]

\* a fetchData and a cleanup that never abort
AbortCurrentMutNoAbort(reqs) == reqs

\* abortControllerRef.current.abort(), when the ref is set; the caller then
\* drops or overwrites the ref, and of a request that had already ended only
\* the way it ended is kept
AbortCurrent(reqs) ==
  IF abortControllerRef = 0 THEN reqs
  ELSE IF reqs[abortControllerRef].stage = "done"
       THEN [reqs EXCEPT ![abortControllerRef].aborted = TRUE,
                         ![abortControllerRef].data = NoData]
       ELSE [reqs EXCEPT ![abortControllerRef].aborted = TRUE,
                         ![abortControllerRef].held = NoHeld]

\* a fetchData that leaves the previous error on screen
fetchDataMutKeepError ==
  /\ Len(requests) < MaxRequests
  /\ requests' = Append(AbortCurrent(requests), NewRequest)
  /\ abortControllerRef' = Len(requests) + 1
  /\ loading' = TRUE
  /\ UNCHANGED <<records, lastUpdated, error>>

\* fetchData up to its first await
fetchData ==
  /\ Len(requests) < MaxRequests
  /\ requests' = Append(AbortCurrent(requests), NewRequest)
  /\ abortControllerRef' = Len(requests) + 1
  /\ loading' = TRUE
  /\ error' = Null
  /\ UNCHANGED <<records, lastUpdated>>

\* the request's promise chain has ended
Settle(r, how) ==
  requests' = [requests EXCEPT ![r].stage = "done", ![r].outcome = how,
                               ![r].held = NoHeld]

\* a catch block that reports every rejection, AbortError included
CatchMutNoAbortCheck(name, message) ==
  /\ error' = (IF message # "" THEN message ELSE "Failed to fetch data")
  /\ loading' = FALSE
  /\ UNCHANGED <<records, lastUpdated, filtered>>

\* a catch block that drops the data it holds when it reports a failure
CatchMutDropsData(name, message) ==
  /\ IF name # "AbortError"
     THEN /\ error' = (IF message # "" THEN message ELSE "Failed to fetch data")
          /\ loading' = FALSE
          /\ records' = <<>>
          /\ lastUpdated' = 0
     ELSE UNCHANGED <<error, loading, records, lastUpdated>>
  /\ UNCHANGED filtered

\* a catch block that reports a failure and leaves the loading flag set
CatchMutKeepsLoading(name, message) ==
  /\ IF name # "AbortError"
     THEN /\ error' = (IF message # "" THEN message ELSE "Failed to fetch data")
          /\ UNCHANGED loading
     ELSE UNCHANGED <<error, loading>>
  /\ UNCHANGED <<records, lastUpdated, filtered>>

\* the catch block
Catch(name, message) ==
  /\ IF name # "AbortError"
     THEN /\ error' = (IF message # "" THEN message ELSE "Failed to fetch data")
          /\ loading' = FALSE
     ELSE UNCHANGED <<error, loading>>
  /\ UNCHANGED <<records, lastUpdated, filtered>>

Live(r) == requests[r].stage # "done" /\ ~requests[r].aborted

\* fetch() fulfils with an OK response; res.json() starts reading the body
FetchResolveOk(r) ==
  /\ requests[r].stage = "fetch" /\ Live(r)
  /\ requests' = [requests EXCEPT ![r].stage = "json", ![r].data = Latest]
  /\ UNCHANGED <<backend, history, visible, filtered, criteria, searchTimeoutRef,
                 abortControllerRef, phase>>

\* fetch() fulfils with a non-OK status: throw new Error(`API error: ...`)
FetchResolveNotOk(r) ==
  /\ requests[r].stage = "fetch" /\ Live(r)
  /\ Catch("Error", "API error: 500")
  /\ Settle(r, "error")
  /\ UNCHANGED <<backend, history, criteria, searchTimeoutRef, abortControllerRef, phase>>

\* fetch() rejects: transport failure
FetchReject(r, message) ==
  /\ requests[r].stage = "fetch" /\ Live(r)
  /\ Catch("TypeError", message)
  /\ Settle(r, "error")
  /\ UNCHANGED <<backend, history, criteria, searchTimeoutRef, abortControllerRef, phase>>

\* res.json() rejects: unreadable body
JsonReject(r) ==
  /\ requests[r].stage = "json" /\ Live(r)
  /\ Catch("SyntaxError", "Unexpected token")
  /\ Settle(r, "error")
  /\ UNCHANGED <<backend, history, criteria, searchTimeoutRef, abortControllerRef, phase>>

\* data.last_updated || (recs.length > 0 ? recs[0].last_updated : null)
LastUpdatedOf(data) ==
  IF data.last_updated # 0 THEN data.last_updated
  ELSE IF Len(data.predictions) > 0 THEN data.predictions[1].last_updated
  ELSE 0

\* a success path after which the view is not recomputed
JsonResolveMutStaleView(r) ==
  /\ requests[r].stage = "json" /\ Live(r)
  /\ records' = requests[r].data.predictions
  /\ lastUpdated' = LastUpdatedOf(requests[r].data)
  /\ loading' = FALSE
  /\ Settle(r, "ok")
  /\ UNCHANGED <<backend, history, error, filtered, criteria, searchTimeoutRef,
                 abortControllerRef, phase>>

\* a success path that puts the filters back to their defaults
JsonResolveMutResetsFilters(r) ==
  /\ requests[r].stage = "json" /\ Live(r)
  /\ records' = requests[r].data.predictions
  /\ lastUpdated' = LastUpdatedOf(requests[r].data)
  /\ loading' = FALSE
  /\ Settle(r, "ok")
  /\ storeFilter' = ALL
  /\ categoryFilter' = "ALL"
  /\ search' = <<>>
  /\ filtered' \in ViewOutcomes(records', ALL, "ALL", showCriticalOnly, <<>>,
                                sortField, sortOrder)
  /\ UNCHANGED <<backend, history, error, showCriticalOnly, sorting, searchTimeoutRef,
                 abortControllerRef, phase>>

\* res.json() fulfils: the success path, then the filter effect on the new records
JsonResolve(r) ==
  /\ requests[r].stage = "json" /\ Live(r)
  /\ records' = requests[r].data.predictions
  /\ lastUpdated' = LastUpdatedOf(requests[r].data)
  /\ loading' = FALSE
  /\ Settle(r, "ok")
  /\ filtered' \in ViewOutcomes(records', storeFilter, categoryFilter,
                                showCriticalOnly, search, sortField, sortOrder)
  /\ UNCHANGED <<backend, history, error, criteria, searchTimeoutRef,
                 abortControllerRef, phase>>

\* an aborted fetch() or res.json() rejects with an AbortError
AbortSettle(r) ==
  /\ requests[r].stage # "done" /\ requests[r].aborted
  /\ Catch("AbortError", "The user aborted a request.")
  /\ requests' = [requests EXCEPT ![r].stage = "done", ![r].outcome = "abort",
                                  ![r].data = NoData]
  /\ UNCHANGED <<backend, history, criteria, searchTimeoutRef, abortControllerRef, phase>>

\* ------------------------------------------------------------------------
\* Mount, unmount and the buttons that call fetchData
\* ------------------------------------------------------------------------
Mount ==
  /\ phase = "init"
  /\ phase' = "mounted"
  /\ fetchData
  /\ filtered' \in ViewOutcomes(records, storeFilter, categoryFilter,
                                showCriticalOnly, search, sortField, sortOrder)
  /\ UNCHANGED <<backend, history, criteria, searchTimeoutRef>>

Refresh ==
  /\ phase = "mounted"
  /\ fetchData
  /\ UNCHANGED <<backend, history, filtered, criteria, searchTimeoutRef, phase>>

Retry ==
  /\ phase = "mounted"
  /\ error # Null
  /\ fetchData
  /\ UNCHANGED <<backend, history, filtered, criteria, searchTimeoutRef, phase>>

\* a cleanup that leaves the request running
UnmountMutNoAbort ==
  /\ phase = "mounted"
  /\ phase' = "unmounted"
  /\ UNCHANGED <<backend, history, visible, filtered, criteria, searchTimeoutRef,
                 fetching>>

\* cleanup of the initial-fetch effect
Unmount ==
  /\ phase = "mounted"
  /\ phase' = "unmounted"
  /\ requests' = AbortCurrent(requests)
  /\ UNCHANGED <<backend, history, visible, filtered, criteria, searchTimeoutRef,
                 abortControllerRef>>

\* ------------------------------------------------------------------------
\* Filter row and table headers
\* ------------------------------------------------------------------------
\* the filter row is rendered unless the skeleton is (loading && no records)
FiltersVisible == phase = "mounted" /\ ~(loading /\ Len(records) = 0)

\* the table, with its sortable headers, is rendered when the view is not empty
HeadersVisible == FiltersVisible /\ Len(filtered) # 0

\* the summary cards with the three counts are rendered below the filter row
SummaryCardsShown == FiltersVisible

\* "No records found" is rendered in place of the main content when the view
\* is empty
EmptyStateShown == FiltersVisible /\ Len(filtered) = 0

\* the analytics panel (Top Critical, Critical by Store) is part of the main
\* content, next to the table
AnalyticsPanelShown == FiltersVisible /\ ~(Len(filtered) = 0)

\* options of the two dropdowns
stores == {ALL} \cup { r.store_id : r \in Range(records) }
categories ==
  {"ALL"} \cup { r.category : r \in { x \in Range(records) : x.category # Undefined } }

\* ------------------------------------------------------------------------
\* Aggregates of the snapshot, computed at every render
\* ------------------------------------------------------------------------
HasStatus(r, status) == r.status = status

\* a count read off the view
countCriticalMutOfView == Len(SelectSeq(filtered, LAMBDA r : HasStatus(r, "Critical")))

countCritical == Len(SelectSeq(records, LAMBDA r : HasStatus(r, "Critical")))

\* a count of every record that is not Safe
countWarningMutNotSafe == Len(SelectSeq(records, LAMBDA r : ~HasStatus(r, "Safe")))

countWarning == Len(SelectSeq(records, LAMBDA r : HasStatus(r, "Warning")))
countSafe == Len(SelectSeq(records, LAMBDA r : HasStatus(r, "Safe")))

\* the reduce step: acc[r.store_id] = (acc[r.store_id] || 0) + 1, an object
\* being the sequence of its entries in the order the keys were added (the
\* store ids are not array indices)
AddCritical(acc, r) ==
  IF ~HasStatus(r, "Critical") THEN acc
  ELSE IF \E k \in 1..Len(acc) : acc[k][1] = r.store_id
       THEN [k \in 1..Len(acc) |->
               IF acc[k][1] = r.store_id THEN <<acc[k][1], acc[k][2] + 1>> ELSE acc[k]]
       ELSE Append(acc, <<r.store_id, 1>>)

RECURSIVE Reduce(_, _)
Reduce(recs, acc) ==
  IF recs = <<>> THEN acc
  ELSE CHOOSE result \in
         { Reduce(Tail(recs), next) : next \in {AddCritical(acc, Head(recs))} } : TRUE

\* a mapping that marks the stores instead of counting their records
criticalByStoreMutMarks ==
  LET counted == Reduce(records, <<>>)
  IN [k \in 1..Len(counted) |-> <<counted[k][1], 1>>]

criticalByStore == Reduce(records, <<>>)

\* BarChart: Object.entries(data).slice(0, 6)
BarChartEntries(data) == SubSeq(data, 1, IF Len(data) < 6 THEN Len(data) ELSE 6)

\* slice(0, 5)
FirstFive(s) == SubSeq(s, 1, IF Len(s) < 5 THEN Len(s) ELSE 5)

\* a list of the most urgent records first
topCriticalMutAscending ==
  FirstFive(StableSort(SelectSeq(records, LAMBDA r : HasStatus(r, "Critical")),
                       "days_to_stockout", "asc"))

\* filter, sort by b.days_to_stockout - a.days_to_stockout, slice(0, 5); the
\* comparator is consistent, days_to_stockout being a number in every record
topCritical ==
  FirstFive(StableSort(SelectSeq(records, LAMBDA r : HasStatus(r, "Critical")),
                       "days_to_stockout", "desc"))

\* ------------------------------------------------------------------------
\* downloadCSV.  A text is a sequence of characters; a string that is not
\* searched or collated (a status, a category, a header) is one element of it.
\* ------------------------------------------------------------------------
Digits == <<"0", "1", "2", "3", "4", "5", "6", "7", "8", "9">>

\* String(n) for a non-negative integer
RECURSIVE NumberToString(_)
NumberToString(n) ==
  IF n < 10 THEN <<Digits[n + 1]>>
  ELSE NumberToString(n \div 10) \o <<Digits[(n % 10) + 1]>>

\* n.toFixed(digits) for an integer n
toFixed(n, digits) ==
  NumberToString(n) \o <<".">> \o [k \in 1..digits |-> "0"]

\* String(s) for a plain string
StringToText(s) == IF s = "" THEN <<>> ELSE <<s>>

\* s || fallback for an optional plain string: undefined and "" are falsy
OrDefault(s, fallback) ==
  IF s = Undefined \/ s = "" THEN <<fallback>> ELSE StringToText(s)

headers ==
  << <<"SKU">>, <<"Store">>, <<"Current Stock">>, <<"Avg Daily Sales">>,
     <<"Days to Stockout">>, <<"Status">>, <<"Reorder Qty">>, <<"Category">>,
     <<"City">> >>

\* the character U+221E
InfinityGlyph == "U+221E"

\* r.days_to_stockout === Infinity ? glyph : r.days_to_stockout?.toFixed(1) || "0"
DaysCell(days) ==
  IF days = Infinity THEN <<InfinityGlyph>>
  ELSE IF days.kind = "num" THEN toFixed(days.v, 1)
  ELSE <<"0">>

\* a quantity cell left blank when the quantity is absent
QuantityCellMutBlank(qty) ==
  IF qty.kind = "num" THEN NumberToString(qty.v) ELSE <<>>

\* r.recommended_reorder_quantity || "0": undefined and 0 are falsy
QuantityCell(qty) ==
  IF qty.kind = "num" /\ qty.v # 0 THEN NumberToString(qty.v) ELSE <<"0">>

\* the nine cells of a record
Row(r) ==
  << r.sku_id, r.store_id, NumberToString(r.current_stock),
     toFixed(r.avg_daily_sales, 2), DaysCell(r.days_to_stockout),
     StringToText(r.status), QuantityCell(r.recommended_reorder_quantity),
     OrDefault(r.category, "-"), OrDefault(r.city, "-") >>

\* parts.join(sep)
RECURSIVE Join(_, _)
Join(parts, sep) ==
  IF parts = <<>> THEN <<>>
  ELSE IF Len(parts) = 1 THEN parts[1]
  ELSE parts[1] \o <<sep>> \o Join(Tail(parts), sep)

\* row.map((cell) => `"${cell}"`).join(",")
Line(row) == Join([k \in 1..Len(row) |-> <<"\"">> \o row[k] \o <<"\"">>], ",")

\* [headers, ...rows].map(...).join("\n")
CsvText(data) ==
  Join([k \in 1..(Len(data) + 1) |->
          IF k = 1 THEN Line(headers) ELSE Line(Row(data[k - 1]))], "\n")

\* a downloadCSV without the early return
downloadCSVMutNoEmptyCheck(data) ==
  /\ csv' = CsvText(data)
  /\ notice' = Null

\* alert and return when there is nothing to export, else build the text and
\* have the browser download it
downloadCSV(data) ==
  IF Len(data) = 0
  THEN /\ notice' = "No data to export"
       /\ csv' = <<>>
  ELSE /\ csv' = CsvText(data)
       /\ notice' = Null

\* an Export button wired to the whole snapshot
ExportMutOfRecords ==
  /\ phase = "mounted"
  /\ downloadCSV(records)
  /\ UNCHANGED <<backend, visible, filtered, criteria, searchTimeoutRef, fetching,
                 phase, headerClicks>>

\* the Export button: onClick={() => downloadCSV(filtered)}
Export ==
  /\ phase = "mounted"
  /\ downloadCSV(filtered)
  /\ UNCHANGED <<backend, visible, filtered, criteria, searchTimeoutRef, fetching,
                 phase, headerClicks>>

\* ------------------------------------------------------------------------
\* Filter row handlers
\* ------------------------------------------------------------------------
\* a store filter that puts the sort back to its defaults
SetStoreFilterMutResetsSort(s) ==
  /\ FiltersVisible
  /\ s # storeFilter
  /\ storeFilter' = s
  /\ sortField' = "sku_id"
  /\ sortOrder' = "asc"
  /\ filtered' \in ViewOutcomes(records, s, categoryFilter, showCriticalOnly,
                                search, "sku_id", "asc")
  /\ UNCHANGED <<backend, history, visible, categoryFilter, search, showCriticalOnly,
                 searchTimeoutRef, fetching, phase>>

SetStoreFilter(s) ==
  /\ FiltersVisible
  /\ s # storeFilter
  /\ storeFilter' = s
  /\ filtered' \in ViewOutcomes(records, s, categoryFilter, showCriticalOnly,
                                search, sortField, sortOrder)
  /\ UNCHANGED <<backend, history, visible, categoryFilter, search, showCriticalOnly,
                 sorting, searchTimeoutRef, fetching, phase>>

SetCategoryFilter(c) ==
  /\ FiltersVisible
  /\ c # categoryFilter
  /\ categoryFilter' = c
  /\ filtered' \in ViewOutcomes(records, storeFilter, c, showCriticalOnly,
                                search, sortField, sortOrder)
  /\ UNCHANGED <<backend, history, visible, storeFilter, search, showCriticalOnly,
                 sorting, searchTimeoutRef, fetching, phase>>

\* a critical-only toggle that flips the sort direction
SetShowCriticalOnlyMutFlipsOrder(checked) ==
  /\ FiltersVisible
  /\ checked # showCriticalOnly
  /\ showCriticalOnly' = checked
  /\ sortOrder' = (IF sortOrder = "asc" THEN "desc" ELSE "asc")
  /\ filtered' \in ViewOutcomes(records, storeFilter, categoryFilter, checked,
                                search, sortField, sortOrder')
  /\ UNCHANGED <<backend, history, visible, storeFilter, categoryFilter, search,
                 sortField, searchTimeoutRef, fetching, phase>>

SetShowCriticalOnly(checked) ==
  /\ FiltersVisible
  /\ checked # showCriticalOnly
  /\ showCriticalOnly' = checked
  /\ filtered' \in ViewOutcomes(records, storeFilter, categoryFilter, checked,
                                search, sortField, sortOrder)
  /\ UNCHANGED <<backend, history, visible, storeFilter, categoryFilter, search,
                 sorting, searchTimeoutRef, fetching, phase>>

\* setSearch(val), clearTimeout, setTimeout(..., SEARCH_DEBOUNCE_MS)
handleSearchChange(val) ==
  /\ FiltersVisible
  /\ val # search
  /\ search' = val
  /\ searchTimeoutRef' = "pending"
  /\ filtered' \in ViewOutcomes(records, storeFilter, categoryFilter,
                                showCriticalOnly, val, sortField, sortOrder)
  /\ UNCHANGED <<backend, history, visible, storeFilter, categoryFilter,
                 showCriticalOnly, sorting, fetching, phase>>

\* the debounce timer fires: its callback is empty
SearchTimeout ==
  /\ searchTimeoutRef = "pending"
  /\ searchTimeoutRef' = "fired"
  /\ UNCHANGED <<backend, history, visible, filtered, criteria, fetching, phase>>

\* the count of clicks in a row on one header, kept for the properties
CountClick(field) ==
  IF sortField # field THEN 1
  ELSE IF headerClicks = 0 THEN 0 ELSE headerClicks + 1

\* a handler that keeps the direction when another column is chosen
handleSortMutKeepsOrder(field) ==
  /\ HeadersVisible
  /\ CountClick(field) <= MaxClicks
  /\ IF sortField = field
     THEN /\ sortOrder' = (IF sortOrder = "asc" THEN "desc" ELSE "asc")
          /\ UNCHANGED sortField
     ELSE /\ sortField' = field
          /\ UNCHANGED sortOrder
  /\ headerClicks' = CountClick(field)
  /\ filtered' \in ViewOutcomes(records, storeFilter, categoryFilter,
                                showCriticalOnly, search, sortField', sortOrder')
  /\ UNCHANGED <<backend, csv, notice, visible, filters, searchTimeoutRef,
                 fetching, phase>>

handleSort(field) ==
  /\ HeadersVisible
  /\ CountClick(field) <= MaxClicks
  /\ IF sortField = field
     THEN /\ sortOrder' = (IF sortOrder = "asc" THEN "desc" ELSE "asc")
          /\ UNCHANGED sortField
     ELSE /\ sortField' = field
          /\ sortOrder' = "asc"
  /\ headerClicks' = CountClick(field)
  /\ filtered' \in ViewOutcomes(records, storeFilter, categoryFilter,
                                showCriticalOnly, search, sortField', sortOrder')
  /\ UNCHANGED <<backend, csv, notice, visible, filters, searchTimeoutRef,
                 fetching, phase>>

\* ------------------------------------------------------------------------
\* The session: backend, fetches and the operator
\* ------------------------------------------------------------------------
Requests == 1..Len(requests)

Next ==
  \/ \E batch \in Batches : Ingest(batch)
  \/ Mount
  \/ Refresh
  \/ Retry
  \/ Unmount
  \/ \E r \in Requests : FetchResolveOk(r)
  \/ \E r \in Requests : FetchResolveNotOk(r)
  \/ \E r \in Requests, m \in {"Failed to fetch", ""} : FetchReject(r, m)
  \/ \E r \in Requests : JsonResolve(r)
  \/ \E r \in Requests : JsonReject(r)
  \/ \E r \in Requests : AbortSettle(r)
  \/ \E s \in stores : SetStoreFilter(s)
  \/ \E c \in categories : SetCategoryFilter(c)
  \/ \E b \in BOOLEAN : SetShowCriticalOnly(b)
  \/ \E val \in TypedTerms : handleSearchChange(val)
  \/ SearchTimeout
  \/ \E i \in 1..Len(SORT_COLUMNS) : handleSort(SORT_COLUMNS[i])
  \/ Export

Spec == Init /\ [][Next]_vars

\* the fetch controller and the store alone: the operator only refreshes
NextFetch ==
  \/ \E batch \in Batches : Ingest(batch)
  \/ Mount
  \/ Refresh
  \/ Retry
  \/ Unmount
  \/ \E r \in Requests : FetchResolveOk(r)
  \/ \E r \in Requests : FetchResolveNotOk(r)
  \/ \E r \in Requests, m \in {"Failed to fetch", ""} : FetchReject(r, m)
  \/ \E r \in Requests : JsonResolve(r)
  \/ \E r \in Requests : JsonReject(r)
  \/ \E r \in Requests : AbortSettle(r)

SpecFetch == Init /\ [][NextFetch]_vars

\* ------------------------------------------------------------------------
\* The filter and sort effect on its own, over every small snapshot
\* ------------------------------------------------------------------------
\* a render with the given records and criteria, before the effect has run
Rendered(recs, storeF, categoryF, criticalOnly, term, sortF, sortO) ==
  /\ LAST_PREDICTIONS = <<>>
  /\ LAST_UPDATED_AT = 0
  /\ posted = <<>>
  /\ records = recs
  /\ filtered = <<>>
  /\ lastUpdated = 0
  /\ loading = FALSE
  /\ error = Null
  /\ storeFilter = storeF
  /\ categoryFilter = categoryF
  /\ search = term
  /\ showCriticalOnly = criticalOnly
  /\ sortField = sortF
  /\ sortOrder = sortO
  /\ searchTimeoutRef = "none"
  /\ abortControllerRef = 0
  /\ requests = <<>>
  /\ phase = "render"
  /\ headerClicks = 0
  /\ csv = <<>>
  /\ notice = Null

\* an effect that sorts the records array itself when no filter copies it
ApplyFiltersEffectMutNoCopy ==
  /\ phase = "render"
  /\ phase' = "mounted"
  /\ filtered' \in ViewOutcomes(records, storeFilter, categoryFilter,
                                showCriticalOnly, search, sortField, sortOrder)
  /\ records' = (IF Len(filtered') = Len(records) THEN filtered' ELSE records)
  /\ UNCHANGED <<backend, history, lastUpdated, loading, error, criteria,
                 searchTimeoutRef, fetching>>

\* the effect body: filter, sort, setFiltered
ApplyFiltersEffect ==
  /\ phase = "render"
  /\ phase' = "mounted"
  /\ filtered' \in ViewOutcomes(records, storeFilter, categoryFilter,
                                showCriticalOnly, search, sortField, sortOrder)
  /\ UNCHANGED <<backend, history, visible, criteria, searchTimeoutRef, fetching>>

InitFilter ==
  \E recs \in SeqsUpTo(FilterUniverse, MaxFilterLen),
     storeF \in StoreFilters, categoryF \in CategoryFilters,
     criticalOnly \in BOOLEAN, term \in SearchTerms :
    Rendered(recs, storeF, categoryF, criticalOnly, term, "sku_id", "asc")

SpecFilter == InitFilter /\ [][ApplyFiltersEffect]_vars

InitSort ==
  \E recs \in SeqsUpTo(SortUniverse, MaxSortLen), criticalOnly \in BOOLEAN,
     i \in 1..Len(SORT_COLUMNS), sortO \in {"asc", "desc"} :
    Rendered(recs, ALL, "ALL", criticalOnly, <<>>, SORT_COLUMNS[i], sortO)

SpecSort == InitSort /\ [][ApplyFiltersEffect]_vars

\* ------------------------------------------------------------------------
\* The operator at the filter row and the table, a snapshot being loaded
\* ------------------------------------------------------------------------
S3 == <<"S", "a">>
S4 == <<"S", "b">>
S5 == <<"s", "a">>
S6 == <<"s", "b">>
S7 == <<"a", "1">>

\* seven stores, each with a Critical record
WideSnapshot ==
  << Rec(<<"a">>, S1, Num(2), "Critical", Num(5), "X"),
     Rec(<<"b">>, S2, Num(0), "Critical", Num(5), "X"),
     Rec(<<"A">>, S3, Num(1), "Critical", Num(3), "Y"),
     Rec(<<"a", "b">>, S4, Num(2), "Critical", Num(4), "Y"),
     Rec(<<"B">>, S5, Num(1), "Critical", Num(5), Undefined),
     Rec(<<"a", "B">>, S6, Num(2), "Critical", Num(1), "X"),
     Rec(<<"b", "a">>, S7, Num(1), "Critical", Num(2), "X") >>

ViewSnapshots == SeqsUpTo(FilterUniverse, MaxViewLen)

\* the component with a snapshot loaded and the criteria at their defaults
InitView ==
  \E recs \in ViewSnapshots : Rendered(recs, ALL, "ALL", FALSE, <<>>, "sku_id", "asc")

NextView ==
  \/ ApplyFiltersEffect
  \/ \E s \in stores : SetStoreFilter(s)
  \/ \E c \in categories : SetCategoryFilter(c)
  \/ \E b \in BOOLEAN : SetShowCriticalOnly(b)
  \/ \E val \in TypedTerms : handleSearchChange(val)
  \/ SearchTimeout
  \/ \E i \in 1..Len(SORT_COLUMNS) : handleSort(SORT_COLUMNS[i])

SpecView == InitView /\ [][NextView]_vars

\* the aggregates panel over small and wide snapshots, the operator choosing
\* a store and the critical-only flag
InitAggregates ==
  \E recs \in ViewSnapshots \cup {WideSnapshot} :
    Rendered(recs, ALL, "ALL", FALSE, <<>>, "sku_id", "asc")

NextAggregates ==
  \/ ApplyFiltersEffect
  \/ \E s \in stores : SetStoreFilter(s)
  \/ \E b \in BOOLEAN : SetShowCriticalOnly(b)

SpecAggregates == InitAggregates /\ [][NextAggregates]_vars

\* ------------------------------------------------------------------------
\* Export of the view
\* ------------------------------------------------------------------------
\* records with and without the optional fields, finite and infinite
ExportUniverse ==
  { [Rec(<<"a">>, S1, Num(2), "Critical", Num(5), "X") EXCEPT !.city = "C"],
    Rec(<<"B">>, S2, Infinity, "Safe", UndefinedNum, Undefined),
    [Rec(<<"b">>, S1, Num(0), "Warning", Num(0), "") EXCEPT !.city = ""],
    Rec(<<"a", "b">>, S1, Infinity, "Critical", Num(3), "Y") }

InitExport ==
  \E recs \in SeqsUpTo(ExportUniverse, MaxExportLen), storeF \in {ALL, S1},
     criticalOnly \in BOOLEAN, sortO \in {"asc", "desc"} :
    Rendered(recs, storeF, "ALL", criticalOnly, <<>>, "days_to_stockout", sortO)

NextExport ==
  \/ ApplyFiltersEffect
  \/ Export

SpecExport == InitExport /\ [][NextExport]_vars

\* records whose text fields hold a comma, a line break or a double quote
EscapeUniverse ==
  { [Rec(<<"a">>, S1, Num(2), "Critical", Num(5), "X") EXCEPT !.city = "C"],
    [Rec(<<"a", ",", "b">>, <<"S", "\n", "1">>, Num(1), "Critical", Num(5), ",")
       EXCEPT !.city = "\n"],
    Rec(<<"a", "\"", "b">>, S1, Num(3), "Warning", Num(1), "X"),
    Rec(<<"b">>, <<"S", "\"", ",", "\"", "1">>, Num(4), "Safe", Num(2), "Y"),
    [Rec(<<"B">>, S2, Infinity, "Safe", Num(0), "\"") EXCEPT !.city = "C"] }

InitEscape ==
  \E recs \in SeqsUpTo(EscapeUniverse, MaxEscapeLen), criticalOnly \in BOOLEAN,
     sortO \in {"asc", "desc"} :
    Rendered(recs, ALL, "ALL", criticalOnly, <<>>, "days_to_stockout", sortO)

NextEscape ==
  \/ ApplyFiltersEffect
  \/ Export

SpecEscape == InitEscape /\ [][NextEscape]_vars

\* ------------------------------------------------------------------------
\* A session of the operator: the page is mounted, snapshots are ingested and
\* fetched, and the operator filters, sorts, refreshes and exports
\* ------------------------------------------------------------------------
\* a batch of another store and category, its record labelled Critical with
\* five days of stock left
BatchC == << Rec(<<"b">>, S2, Num(5), "Critical", Num(5), "Y") >>

SessionBatches == {BatchA, BatchC}

NextSession ==
  \/ \E batch \in SessionBatches : Ingest(batch)
  \/ Mount
  \/ Len(requests) < MaxSessionRequests /\ Refresh
  \/ \E r \in Requests : FetchResolveOk(r)
  \/ \E r \in Requests : FetchResolveNotOk(r)
  \/ \E r \in Requests : JsonResolve(r)
  \/ \E r \in Requests : AbortSettle(r)
  \/ \E s \in stores : SetStoreFilter(s)
  \/ \E c \in categories : SetCategoryFilter(c)
  \/ \E val \in TypedTerms : handleSearchChange(val)
  \/ handleSort("days_to_stockout")

SpecSession == Init /\ [][NextSession]_vars

\* ========================================================================
\* Properties
\* ========================================================================
\* a step in which fetchData starts a request
Started == Len(requests') = Len(requests) + 1

\* a step in which request r's promise chain ends
Ended(r) == requests[r].stage # "done" /\ requests'[r].stage = "done"

\* r is outstanding and its signal has been aborted
Cancelled(r) == requests[r].stage # "done" /\ requests[r].aborted

\* the current request has ended and its controller is still the ref's
CurrentEnded(how) ==
  /\ abortControllerRef # 0
  /\ requests[abortControllerRef].stage = "done"
  /\ ~requests[abortControllerRef].aborted
  /\ requests[abortControllerRef].outcome = how

\* ---- C1 ----------------------------------------------------------------
C1_CancelOnStart ==
  Started => \A r \in Requests : requests'[r].stage # "done" => requests'[r].aborted

C1_StaleDiscarded ==
  \A r \in Requests : (Cancelled(r) /\ Ended(r)) => UNCHANGED visible

C1_CurrentResult ==
  /\ CurrentEnded("ok") =>
       /\ records = requests[abortControllerRef].data.predictions
       /\ lastUpdated = LastUpdatedOf(requests[abortControllerRef].data)
       /\ loading = FALSE
       /\ error = Null
  /\ CurrentEnded("error") => (error # Null /\ loading = FALSE)

\* C1: latest request wins.  Whenever fetchData starts a request, every
\* request still outstanding is cancelled in that same step; the completion
\* of a cancelled request changes none of records, lastUpdated, loading and
\* error; and once the latest request has ended, the visible state is its
\* result, whether earlier requests have ended or not.
C1_LatestRequestWins ==
  [](C1_CurrentResult) /\ [][C1_CancelOnStart /\ C1_StaleDiscarded]_vars

\* R1 was cancelled and has ended, R2 has succeeded and its records are shown
C1_Witness ==
  /\ Len(requests) >= 2
  /\ requests[1].outcome = "abort"
  /\ requests[2].outcome = "ok"
  /\ abortControllerRef = 2
  /\ records = requests[2].data.predictions
  /\ Len(records) > 0

\* ---- C2 ----------------------------------------------------------------
C2_AbortSilent ==
  \A r \in Requests : (Cancelled(r) /\ Ended(r)) => error' = error

C2_ErrorOnlyFromFailure ==
  (error' # Null /\ error' # error) =>
    \E r \in Requests : /\ requests[r].stage # "done" /\ ~requests[r].aborted
                        /\ requests'[r].outcome = "error"

\* C2: cancellation is never surfaced as a failure.  The completion of a
\* cancelled request leaves error as it was, error becomes non-null only in
\* a step in which a request that was not cancelled fails, and whenever an
\* error is shown the latest request is one that failed.
C2_CancellationNotAnError ==
  /\ [](error # Null =>
          (abortControllerRef # 0 /\ requests[abortControllerRef].outcome = "error"))
  /\ [][C2_AbortSilent /\ C2_ErrorOnlyFromFailure]_vars

\* a superseded request and a request aborted by teardown have both ended,
\* and no error is shown
C2_Witness ==
  /\ phase = "unmounted"
  /\ Len(requests) >= 2
  /\ requests[1].outcome = "abort"
  /\ requests[2].outcome = "abort"
  /\ error = Null

\* ---- C3 ----------------------------------------------------------------
C3_TeardownAborts ==
  (phase = "mounted" /\ phase' = "unmounted") =>
    \A r \in Requests : requests'[r].stage # "done" => requests'[r].aborted

C3_NothingAfterTeardown == phase = "unmounted" => UNCHANGED visible

\* C3: teardown cancels the outstanding request.  The unmount step leaves no
\* outstanding request that is not aborted, and no step taken after unmount
\* changes records, lastUpdated, loading or error.
C3_TeardownCancels ==
  /\ [](phase = "unmounted" =>
          \A r \in Requests : requests[r].stage # "done" => requests[r].aborted)
  /\ [][C3_TeardownAborts /\ C3_NothingAfterTeardown]_vars

\* the request that was outstanding at unmount has ended as aborted, and the
\* state is what it was at unmount (still loading)
C3_Witness ==
  /\ phase = "unmounted"
  /\ abortControllerRef # 0
  /\ requests[abortControllerRef].outcome = "abort"
  /\ requests[abortControllerRef].stage = "done"
  /\ loading = TRUE

\* ---- C4 ----------------------------------------------------------------
C4_FailureShown ==
  \A r \in Requests :
    (~requests[r].aborted /\ Ended(r) /\ requests'[r].outcome = "error") =>
      (error' # Null /\ loading' = FALSE)

C4_StartClearsError == Started => (error' = Null /\ loading' = TRUE)

C4_SuccessInstalled ==
  \A r \in Requests :
    (Ended(r) /\ requests'[r].outcome = "ok") =>
      /\ records' = requests[r].data.predictions
      /\ lastUpdated' = LastUpdatedOf(requests[r].data)
      /\ error' = Null
      /\ loading' = FALSE

\* C4: the controller stays usable after a failure.  A failing request that
\* was not cancelled sets error and clears loading; while the error is shown
\* Retry can start a request; every start of a request clears error; and a
\* request that succeeds installs its records and timestamp with error null
\* and loading false.
C4_UsableAfterFailure ==
  /\ []((phase = "mounted" /\ error # Null /\ Len(requests) < MaxRequests)
          => ENABLED Retry)
  /\ [][C4_FailureShown /\ C4_StartClearsError /\ C4_SuccessInstalled]_vars

\* the first request failed, the retry succeeded
C4_Witness ==
  /\ Len(requests) >= 2
  /\ requests[1].outcome = "error"
  /\ requests[2].outcome = "ok"
  /\ abortControllerRef = 2
  /\ records = requests[2].data.predictions
  /\ Len(records) > 0
  /\ error = Null
  /\ loading = FALSE

\* ---- C5 ----------------------------------------------------------------
C5_FailureKeepsData ==
  \A r \in Requests :
    (Ended(r) /\ requests'[r].outcome \in {"error", "abort"}) =>
      UNCHANGED <<records, lastUpdated, filtered>>

C5_StartKeepsData == Started => UNCHANGED <<records, lastUpdated>>

WholeSnapshot(data) ==
  \/ data = NoData
  \/ data.predictions \in Batches /\ data.last_updated \in 1..MaxIngest

\* C6: atomic wholesale replace.  After every ingest the stored snapshot is
\* exactly the batch last posted, in its order (so the empty batch clears
\* it), and every body a query receives is one posted batch whole, never a
\* mix or a concatenation of two.
C6_WholesaleReplace ==
  /\ LAST_PREDICTIONS = posted
  /\ (LAST_UPDATED_AT = 0) => (LAST_PREDICTIONS = <<>>)
  /\ WholeSnapshot(Latest)
  /\ \A r \in Requests : WholeSnapshot(requests[r].data)

\* a first, non-empty batch is on screen; the empty batch was ingested after
\* it and a later query has received the empty snapshot
C6_Witness ==
  /\ LAST_UPDATED_AT = 2
  /\ posted = <<>>
  /\ records = BatchA
  /\ lastUpdated = 1
  /\ \E r \in Requests : requests[r].data = [predictions |-> <<>>, last_updated |-> 2]

\* ---- C7 ----------------------------------------------------------------
SameLetter(c, d) == ToLowerChar(c) = ToLowerChar(d)

\* t occurs in s at some position, letters compared ignoring case
ContainsIgnoringCase(s, t) ==
  \E i \in 0..(Len(s) - Len(t)) : \A j \in 1..Len(t) : SameLetter(s[i + j], t[j])

\* r satisfies every active predicate of the current criteria
Satisfies(r) ==
  /\ storeFilter # ALL => r.store_id = storeFilter
  /\ categoryFilter # "ALL" => r.category = categoryFilter
  /\ showCriticalOnly => r.status = "Critical"
  /\ ContainsIgnoringCase(r.sku_id, trim(search))

Count(s, x) == Cardinality({ i \in 1..Len(s) : s[i] = x })

IsPermutation(a, b) ==
  /\ Len(a) = Len(b)
  /\ \A x \in Range(a) \cup Range(b) : Count(a, x) = Count(b, x)

\* the current records filtered by the current criteria, before sorting
Prefiltered ==
  ApplyFilters(records, storeFilter, categoryFilter, showCriticalOnly, search)

C7_OrderIndependent ==
  LET st(d) == FilterStore(d, storeFilter)
      ca(d) == FilterCategory(d, categoryFilter)
      cr(d) == FilterCritical(d, showCriticalOnly)
      se(d) == FilterSearch(d, search)
  IN /\ st(ca(records)) = ca(st(records))
     /\ st(cr(records)) = cr(st(records))
     /\ st(se(records)) = se(st(records))
     /\ ca(cr(records)) = cr(ca(records))
     /\ ca(se(records)) = se(ca(records))
     /\ cr(se(records)) = se(cr(records))
     /\ st(ca(cr(se(records)))) = Prefiltered

\* C7: filters are AND-combined and order-independent.  The filtered
\* sequence is exactly the records that satisfy every active predicate, in
\* snapshot order; the view the effect stores holds those records and no
\* others; and any two of the four predicates commute.
C7_FiltersAndCombined ==
  /\ Prefiltered = SelectSeq(records, Satisfies)
  /\ phase = "mounted" => IsPermutation(filtered, SelectSeq(records, Satisfies))
  /\ C7_OrderIndependent

\* all four predicates are active and they keep some records, not all
C7_Witness ==
  /\ phase = "mounted"
  /\ storeFilter # ALL
  /\ categoryFilter # "ALL"
  /\ showCriticalOnly
  /\ trim(search) # <<>>
  /\ Len(filtered) > 0
  /\ Len(filtered) < Len(records)

\* ---- C8 ----------------------------------------------------------------
OnlySearchActive ==
  phase = "mounted" /\ storeFilter = ALL /\ categoryFilter = "ALL" /\ ~showCriticalOnly

\* C8 as claimed: a record is kept if and only if its sku_id contains the
\* search term as typed, ignoring case, leading and trailing spaces included.
C8_SearchIsSubstringOfTypedTerm ==
  OnlySearchActive =>
    \A r \in Range(records) :
      (r \in Range(filtered)) <=> ContainsIgnoringCase(r.sku_id, search)

\* C8 (amended): a record is kept if and only if its sku_id contains,
\* ignoring case and anywhere in the string, the search term with its leading
\* and trailing whitespace removed; a term that is empty after that removal
\* keeps every record.
C8_SearchIsSubstringOfTrimmedTerm ==
  /\ OnlySearchActive =>
       \A r \in Range(records) :
         (r \in Range(filtered)) <=> ContainsIgnoringCase(r.sku_id, trim(search))
  /\ (OnlySearchActive /\ trim(search) = <<>>) => IsPermutation(filtered, records)
  /\ FilterSearch(records, search) =
       SelectSeq(records, LAMBDA r : ContainsIgnoringCase(r.sku_id, trim(search)))

\* a term typed with a leading space and in another case keeps some records
C8_Witness ==
  /\ OnlySearchActive
  /\ search = <<" ", "A">>
  /\ Len(filtered) > 0
  /\ Len(filtered) < Len(records)
  /\ \E r \in Range(filtered) : ~ContainsIgnoringCase(r.sku_id, search)

\* ---- C9 ----------------------------------------------------------------
\* the value a numeric field is ordered by: an absent
\* recommended_reorder_quantity counts as 0
AsNumber(x) == IF x.kind = "undefined" THEN Num(0) ELSE x

\* x <= y for numeric field values, Infinity the greatest
NumLeq(x, y) ==
  LET a == AsNumber(x)
      b == AsNumber(y)
  IN \/ b.kind = "inf"
     \/ a.kind = "num" /\ b.kind = "num" /\ a.v <= b.v

\* x comes no later than y in the ascending order of the field
FieldLeq(x, y, field) ==
  IF IsStringField(field)
  THEN Sign(localeCompare(x[field], y[field])) <= 0
  ELSE NumLeq(x[field], y[field])

Ordered(view, field, order) ==
  \A i \in 1..(Len(view) - 1) :
    IF order = "asc"
    THEN FieldLeq(view[i], view[i + 1], field)
    ELSE FieldLeq(view[i + 1], view[i], field)

\* C9: for each of the four sortable fields and both directions the view is
\* a permutation of the filtered records in which every adjacent pair is
\* correctly ordered, an absent recommended_reorder_quantity ordered as 0.
C9_SortedViewOrdered ==
  phase = "mounted" =>
    /\ IsPermutation(filtered, Prefiltered)
    /\ Ordered(filtered, sortField, sortOrder)

HasAbsentQuantity == \E r \in Range(records) : r.recommended_reorder_quantity = UndefinedNum

\* the same ordering holds of every snapshot whose records all carry the
\* fields they are sorted by
C9_OrderedWhenFieldsPresent ==
  (phase = "mounted" /\ ~(sortField = "recommended_reorder_quantity" /\ HasAbsentQuantity)) =>
    /\ IsPermutation(filtered, Prefiltered)
    /\ Ordered(filtered, sortField, sortOrder)

\* ---- C10 ---------------------------------------------------------------
\* x and y have the same value in the field
SameKey(x, y, field) == x[field] = y[field]

\* records with equal keys keep the relative order they had before the sort
KeepsRelativeOrder(before, after, field) ==
  \A x \in Range(before) :
    SelectSeq(after, LAMBDA y : SameKey(x, y, field)) =
      SelectSeq(before, LAMBDA y : SameKey(x, y, field))

\* C10: the sort is stable in both directions: records that compare equal
\* on the active sort field, two infinite days_to_stockout included, keep
\* their pre-sort relative order.
C10_SortStable ==
  phase = "mounted" => KeepsRelativeOrder(Prefiltered, filtered, sortField)

\* the same stability holds of every snapshot whose records all carry the
\* fields they are sorted by
C10_StableWhenFieldsPresent ==
  (phase = "mounted" /\ ~(sortField = "recommended_reorder_quantity" /\ HasAbsentQuantity)) =>
    KeepsRelativeOrder(Prefiltered, filtered, sortField)

\* ---- C11 ---------------------------------------------------------------
IsInfinite(r) == r.days_to_stockout = Infinity

\* view[i] is infinite and comes before the finite view[j]
InfiniteBeforeFinite(view, i, j) ==
  i < j /\ IsInfinite(view[i]) /\ ~IsInfinite(view[j])

\* view[i] is finite and comes before the infinite view[j]
FiniteBeforeInfinite(view, i, j) ==
  i < j /\ ~IsInfinite(view[i]) /\ IsInfinite(view[j])

\* C11: when the view is sorted by days_to_stockout, the records whose value
\* is Infinity come after every record with a finite value in ascending order
\* and before every one of them in descending order.
C11_InfinityOrdering ==
  (phase = "mounted" /\ sortField = "days_to_stockout") =>
    \A i, j \in 1..Len(filtered) :
      IF sortOrder = "asc"
      THEN ~InfiniteBeforeFinite(filtered, i, j)
      ELSE ~FiniteBeforeInfinite(filtered, i, j)

\* a snapshot with an infinite record between finite ones, sorted descending:
\* the infinite record has moved to the front
C11_Witness ==
  /\ phase = "mounted"
  /\ sortField = "days_to_stockout"
  /\ sortOrder = "desc"
  /\ Len(records) >= 3
  /\ ~IsInfinite(records[1])
  /\ IsInfinite(records[2])
  /\ ~IsInfinite(records[3])
  /\ Len(filtered) = Len(records)
  /\ IsInfinite(filtered[1])

\* ---- C12 ---------------------------------------------------------------
Flip(order) == IF order = "asc" THEN "desc" ELSE "asc"

\* a click on a header other than the current one
C12_ClickNewHeader ==
  \A i \in 1..Len(SORT_COLUMNS) :
    (SORT_COLUMNS[i] # sortField /\ handleSort(SORT_COLUMNS[i])) =>
      (sortField' = SORT_COLUMNS[i] /\ sortOrder' = "asc")

\* a click on the current header
C12_ClickSameHeader ==
  \A i \in 1..Len(SORT_COLUMNS) :
    (SORT_COLUMNS[i] = sortField /\ handleSort(SORT_COLUMNS[i])) =>
      (sortField' = sortField /\ sortOrder' = Flip(sortOrder))

\* after k clicks in a row on a header that was new at the first of them the
\* direction is asc for odd k and desc for even k
C12_Parity ==
  headerClicks > 0 => (sortOrder = "asc" <=> headerClicks % 2 = 1)

\* C12: a click on a new header selects it ascending whatever the direction
\* was, a click on the current header keeps the field and flips the
\* direction, k clicks in a row on a new header leave asc for odd k and desc
\* for even k, and the sort field is always one of the four sortable columns.
C12_SortHeaderToggling ==
  /\ [](C12_Parity)
  /\ [](sortField \in Range(SORT_COLUMNS) /\ sortOrder \in {"asc", "desc"})
  /\ [][C12_ClickNewHeader /\ C12_ClickSameHeader]_vars

\* a new header clicked three times in a row
C12_Witness ==
  /\ sortField = "store_id"
  /\ headerClicks = 3
  /\ sortOrder = "asc"

\* ---- C13 ---------------------------------------------------------------
\* the step is the success path of a request that was not cancelled, and it
\* installs the whole body of the response
SuccessInstalls ==
  \E r \in Requests :
    /\ requests[r].stage = "json" /\ Live(r)
    /\ requests'[r].outcome = "ok"
    /\ records' = requests[r].data.predictions

\* C13: recomputing the view and the aggregates never changes the records
\* the component holds, in content or in order; records changes only in the
\* step in which a request that was not cancelled succeeds, and then to the
\* whole body of its response.
C13_SnapshotNotMutated == [][records' = records \/ SuccessInstalls]_vars

\* the view has been recomputed several times and is in another order than
\* the records, and so is the Top Critical list
C13_Witness ==
  /\ phase = "mounted"
  /\ headerClicks >= 2
  /\ storeFilter # ALL
  /\ Len(records) >= 2
  /\ filtered # <<>>
  /\ \E i, j \in 1..Len(records) :
       i < j /\ Sign(comparefn(records[i], records[j], sortField, sortOrder)) > 0
  /\ topCritical # FirstFive(SelectSeq(records, LAMBDA r : HasStatus(r, "Critical")))

\* ---- C14 ---------------------------------------------------------------
Aggregates == <<countCritical, countWarning, countSafe, criticalByStore, topCritical>>

\* C14: the status counts, criticalByStore and topCritical do not depend on
\* the criteria: every step that changes the store filter, the category
\* filter, the critical-only flag, the search term or the sort leaves all of
\* them, the records and the rest of the visible state unchanged.
C14_AggregatesIgnoreCriteria ==
  [][criteria' # criteria => (Aggregates' = Aggregates /\ UNCHANGED <<visible, backend>>)]_vars

\* the view holds fewer Critical records than the snapshot, and a record of
\* the Top Critical list is filtered out
C14_Witness ==
  /\ phase = "mounted"
  /\ storeFilter # ALL
  /\ Len(SelectSeq(filtered, LAMBDA r : HasStatus(r, "Critical"))) < countCritical
  /\ \E r \in Range(topCritical) : r \notin Range(filtered)
  /\ \E e \in Range(criticalByStore) : e[1] # storeFilter

\* ---- C15 ---------------------------------------------------------------
NumberWithStatus(status) ==
  Cardinality({ i \in 1..Len(records) : records[i].status = status })

\* C15: each of countCritical, countWarning and countSafe is the number of
\* records of the snapshot with exactly that status; when every record has
\* one of the three statuses they sum to the number of records; a snapshot of
\* one Warning record gives 0, 1, 0.
C15_StatusCounts ==
  /\ countCritical = NumberWithStatus("Critical")
  /\ countWarning = NumberWithStatus("Warning")
  /\ countSafe = NumberWithStatus("Safe")
  /\ (\A r \in Range(records) : r.status \in {"Critical", "Warning", "Safe"}) =>
       countCritical + countWarning + countSafe = Len(records)
  /\ (Len(records) = 1 /\ records[1].status = "Warning") =>
       <<countCritical, countWarning, countSafe>> = <<0, 1, 0>>

\* a snapshot with a Critical and a Warning record
C15_Witness ==
  /\ phase = "mounted"
  /\ Len(records) = 2
  /\ countCritical = 1
  /\ countWarning = 1
  /\ countSafe = 0

\* ---- C16 ---------------------------------------------------------------
RECURSIVE SumOfValues(_)
SumOfValues(entries) ==
  IF entries = <<>> THEN 0 ELSE Head(entries)[2] + SumOfValues(Tail(entries))

CriticalAt(store) ==
  Cardinality({ i \in 1..Len(records) :
                  records[i].status = "Critical" /\ records[i].store_id = store })

\* C16: the keys of criticalByStore are exactly the stores with at least one
\* Critical record, each once; each value is the number of Critical records
\* of that store; the values sum to countCritical; the chart's first six
\* entries are a prefix of the mapping, which keeps all its entries.
C16_CriticalByStore ==
  /\ { e[1] : e \in Range(criticalByStore) } =
       { r.store_id : r \in { x \in Range(records) : x.status = "Critical" } }
  /\ \A j, k \in 1..Len(criticalByStore) :
       criticalByStore[j][1] = criticalByStore[k][1] => j = k
  /\ \A e \in Range(criticalByStore) : e[2] = CriticalAt(e[1]) /\ e[2] >= 1
  /\ SumOfValues(criticalByStore) = countCritical
  /\ LET chart == BarChartEntries(criticalByStore)
     IN /\ Len(chart) <= 6
        /\ Len(chart) <= Len(criticalByStore)
        /\ \A k \in 1..Len(chart) : chart[k] = criticalByStore[k]

\* seven stores have Critical records and the chart shows six of them
C16_Witness ==
  /\ phase = "mounted"
  /\ Len(criticalByStore) = 7
  /\ Len(BarChartEntries(criticalByStore)) = 6
  /\ SumOfValues(criticalByStore) = 7

\* ---- C17 ---------------------------------------------------------------
CriticalRecords == SelectSeq(records, LAMBDA r : r.status = "Critical")

\* C17: topCritical has min(5, number of Critical records) entries, all of
\* them Critical records of the snapshot, in non-increasing order of
\* days_to_stockout, and every Critical record left out has a
\* days_to_stockout no greater than that of any entry.
C17_TopCritical ==
  /\ Len(topCritical) = (IF Len(CriticalRecords) < 5 THEN Len(CriticalRecords) ELSE 5)
  /\ \A e \in Range(topCritical) : e.status = "Critical"
  /\ \A k \in 1..(Len(topCritical) - 1) :
       NumLeq(topCritical[k + 1].days_to_stockout, topCritical[k].days_to_stockout)
  /\ \A x \in Range(CriticalRecords) :
       /\ Count(topCritical, x) <= Count(CriticalRecords, x)
       /\ Count(topCritical, x) < Count(CriticalRecords, x) =>
            \A e \in Range(topCritical) :
              NumLeq(x.days_to_stockout, e.days_to_stockout)

\* seven Critical records: five are listed, two are left out
C17_Witness ==
  /\ phase = "mounted"
  /\ Len(CriticalRecords) = 7
  /\ Len(topCritical) = 5
  /\ topCritical[1].days_to_stockout = Num(2)
  /\ topCritical[5].days_to_stockout = Num(1)

\* ---- C18 ---------------------------------------------------------------
\* the pieces of text between the occurrences of sep
RECURSIVE SplitOn(_, _)
SplitOn(text, sep) ==
  IF \A k \in 1..Len(text) : text[k] # sep THEN <<text>>
  ELSE LET first == CHOOSE k \in 1..Len(text) :
                      text[k] = sep /\ \A j \in 1..(k - 1) : text[j] # sep
       IN <<SubSeq(text, 1, first - 1)>> \o SplitOn(SubSeq(text, first + 1, Len(text)), sep)

\* the rows of the document of the last export
DocumentRows == SplitOn(csv, "\n")

\* a click on Export: no document and the notice for an empty view, a
\* document and no notice otherwise, and nothing else changes
C18_ExportStep ==
  (Export \/ csv' # csv \/ notice' # notice) =>
    /\ IF Len(filtered) = 0
       THEN csv' = <<>> /\ notice' = "No data to export"
       ELSE csv' # <<>> /\ notice' = Null
    /\ UNCHANGED <<backend, visible, filtered, criteria, searchTimeoutRef, fetching,
                   phase>>

\* C18: exporting an empty view produces no document, not even a header-only
\* one, and raises the "No data to export" notice; exporting a non-empty view
\* produces a document and no notice; neither changes any state of the page.
C18_EmptyExportIsNoOp ==
  /\ [][C18_ExportStep]_vars
  /\ [](notice # Null => (csv = <<>> /\ filtered = <<>>))
  /\ [](csv # <<>> => (notice = Null /\ filtered # <<>> /\ Len(DocumentRows) >= 2))

\* the snapshot has records, the filters match none of them, Export was clicked
C18_Witness ==
  /\ Len(records) > 0
  /\ filtered = <<>>
  /\ notice = "No data to export"
  /\ csv = <<>>

\* ---- C19 ---------------------------------------------------------------
Fields(line) == SplitOn(line, ",")

Quoted(field) ==
  Len(field) >= 2 /\ field[1] = "\"" /\ field[Len(field)] = "\""

Unquote(field) == SubSeq(field, 2, Len(field) - 1)

\* C19: the document of a view of n records has n + 1 rows; the first is the
\* nine headers in their order; row i + 1 is nine quoted fields that encode
\* the i-th record of the filtered and sorted view.
C19_ExportShape ==
  csv # <<>> =>
    /\ Len(DocumentRows) = Len(filtered) + 1
    /\ \A k \in 1..Len(DocumentRows) :
         /\ Len(Fields(DocumentRows[k])) = 9
         /\ \A c \in 1..9 : Quoted(Fields(DocumentRows[k])[c])
    /\ [c \in 1..9 |-> Unquote(Fields(DocumentRows[1])[c])] =
         << <<"SKU">>, <<"Store">>, <<"Current Stock">>, <<"Avg Daily Sales">>,
            <<"Days to Stockout">>, <<"Status">>, <<"Reorder Qty">>,
            <<"Category">>, <<"City">> >>
    /\ \A i \in 1..Len(filtered) :
         LET cells == [c \in 1..9 |-> Unquote(Fields(DocumentRows[i + 1])[c])]
         IN /\ cells[1] = filtered[i].sku_id
            /\ cells[2] = filtered[i].store_id
            /\ cells[3] = <<"5">>
            /\ cells[4] = <<"1", ".", "0", "0">>
            /\ cells[6] = <<filtered[i].status>>

\* a view of one record, in a snapshot of two, has been exported
C19_Witness ==
  /\ Len(records) = 2
  /\ Len(filtered) = 1
  /\ records[1] # filtered[1]
  /\ Len(DocumentRows) = 2

\* ---- C20 ---------------------------------------------------------------
\* the text of cell c of the row of the i-th record of the view
Cell(i, c) == Unquote(Fields(DocumentRows[i + 1])[c])

C20_SentinelAndAbsent(i) ==
  LET r == filtered[i]
  IN /\ (Cell(i, 5) = <<InfinityGlyph>>) <=> (r.days_to_stockout = Infinity)
     /\ r.category = Undefined => Cell(i, 8) = <<"-">>
     /\ r.city = Undefined => Cell(i, 9) = <<"-">>
     /\ r.recommended_reorder_quantity = UndefinedNum => Cell(i, 7) = <<"0">>
     /\ r.recommended_reorder_quantity.kind = "num" =>
          Cell(i, 7) = NumberToString(r.recommended_reorder_quantity.v)
     /\ r.days_to_stockout.kind = "num" =>
          Cell(i, 5) = NumberToString(r.days_to_stockout.v) \o <<".", "0">>

\* C20 as claimed: the infinity glyph exactly for the infinite value, "-" for
\* an absent category or city, "0" for an absent quantity, and a present
\* value is never replaced by these defaults.
C20_PresentNeverDefaulted ==
  csv # <<>> =>
    \A i \in 1..Len(filtered) :
      /\ C20_SentinelAndAbsent(i)
      /\ filtered[i].category # Undefined => Cell(i, 8) = StringToText(filtered[i].category)
      /\ filtered[i].city # Undefined => Cell(i, 9) = StringToText(filtered[i].city)

\* C20 (amended): the infinity glyph exactly for the infinite value, "-" for
\* an absent category or city, "0" for an absent quantity; a present quantity
\* and a present non-empty category or city are rendered as they are, and a
\* category or city that is the empty string is rendered as "-" too.
C20_NonEmptyNeverDefaulted ==
  csv # <<>> =>
    \A i \in 1..Len(filtered) :
      /\ C20_SentinelAndAbsent(i)
      /\ filtered[i].category \notin {Undefined, ""} =>
           Cell(i, 8) = <<filtered[i].category>>
      /\ filtered[i].city \notin {Undefined, ""} => Cell(i, 9) = <<filtered[i].city>>
      /\ filtered[i].category = "" => Cell(i, 8) = <<"-">>
      /\ filtered[i].city = "" => Cell(i, 9) = <<"-">>

\* a view with an infinite record lacking quantity, category and city and a
\* record that has them all has been exported
C20_Witness ==
  /\ Len(filtered) = 2
  /\ Len(DocumentRows) = 3
  /\ \E i \in 1..2 :
       /\ filtered[i].days_to_stockout = Infinity
       /\ filtered[i].recommended_reorder_quantity = UndefinedNum
       /\ filtered[i].category = Undefined
  /\ \E i \in 1..2 : filtered[i].city = "C" /\ filtered[i].category = "X"

\* ---- C21 ---------------------------------------------------------------
\* the result of reading a text as quoted CSV: its rows of fields, or no
\* result when the text is not well formed
Parsed(rows) == [ok |-> TRUE, rows |-> rows]
Malformed == [ok |-> FALSE, rows |-> <<>>]

\* a reader of quoted CSV: its mode, the field being read, the fields of the
\* row being read, the rows read
Reader(mode, field, row, rows) ==
  [mode |-> mode, field |-> field, row |-> row, rows |-> rows]

\* The reader takes the character c.  mode is "start" at the start of a
\* field, "quoted" inside the quotes of a field, "quote" after a quote seen
\* inside them, "failed" when the text is not well formed.  Inside quotes a
\* doubled quote is one quote character, and commas and line breaks are text;
\* a closing quote is followed by a comma, a line break or the end of the
\* text; a field that does not open with a quote is not read.
ReadChar(st, c) ==
  LET Failed == Reader("failed", <<>>, <<>>, <<>>)
  IN CASE st.mode = "start" ->
            IF c = "\"" THEN Reader("quoted", <<>>, st.row, st.rows) ELSE Failed
       [] st.mode = "quoted" ->
            IF c = "\"" THEN Reader("quote", st.field, st.row, st.rows)
            ELSE Reader("quoted", Append(st.field, c), st.row, st.rows)
       [] st.mode = "quote" ->
            IF c = "\"" THEN Reader("quoted", Append(st.field, c), st.row, st.rows)
            ELSE IF c = ","
                 THEN Reader("start", <<>>, Append(st.row, st.field), st.rows)
                 ELSE IF c = "\n"
                      THEN Reader("start", <<>>, <<>>,
                                  Append(st.rows, Append(st.row, st.field)))
                      ELSE Failed
       [] OTHER -> Failed

\* the reader after the characters lo..hi of the text, by halves
RECURSIVE ReadRange(_, _, _, _)
ReadRange(text, st, lo, hi) ==
  IF lo > hi THEN st
  ELSE IF lo = hi THEN ReadChar(st, text[lo])
  ELSE LET mid == (lo + hi) \div 2
       IN CHOOSE result \in
            { ReadRange(text, half, mid + 1, hi) :
                half \in {ReadRange(text, st, lo, mid)} } : TRUE

\* a text is well formed when it ends after a closing quote
ParseCsv(text) ==
  LET st == ReadRange(text, Reader("start", <<>>, <<>>, <<>>), 1, Len(text))
  IN IF st.mode = "quote" THEN Parsed(Append(st.rows, Append(st.row, st.field)))
     ELSE Malformed

IsSpecial(c) == c \in {"\"", ",", "\n"}

\* some text field of r holds a special character
HasSpecial(r) ==
  \/ \E k \in 1..Len(r.sku_id) : IsSpecial(r.sku_id[k])
  \/ \E k \in 1..Len(r.store_id) : IsSpecial(r.store_id[k])
  \/ IsSpecial(r.category)
  \/ IsSpecial(r.city)

\* some text field of r holds a double quote
HasQuote(r) ==
  \/ \E k \in 1..Len(r.sku_id) : r.sku_id[k] = "\""
  \/ \E k \in 1..Len(r.store_id) : r.store_id[k] = "\""
  \/ r.category = "\""
  \/ r.city = "\""

\* the document reads back as the header row and the cells of the view
RoundTrip ==
  LET doc == ParseCsv(csv)
  IN /\ doc.ok
     /\ Len(doc.rows) = Len(filtered) + 1
     /\ \A k \in 1..Len(doc.rows) : Len(doc.rows[k]) = 9
     /\ doc.rows[1] = headers
     /\ \A i \in 1..Len(filtered) : doc.rows[i + 1] = Row(filtered[i])

\* C21: the export escapes field values: for every exported view, including
\* one with a record whose sku_id, store_id, category or city holds a double
\* quote, a comma or a line break, reading the document as quoted CSV gives
\* nine fields per row whose text is the encoded values.
C21_CsvRoundTrip == csv # <<>> => RoundTrip

\* the round trip holds of every view none of whose text fields holds a double
\* quote, commas and line breaks included
C21_RoundTripWithoutQuotes ==
  (csv # <<>> /\ \A r \in Range(filtered) : ~HasQuote(r)) => RoundTrip

\* a record with a comma and line breaks in its text fields has been exported
\* and reads back
C21_CommaAndLineBreakRead ==
  /\ csv # <<>>
  /\ \E r \in Range(filtered) : HasSpecial(r) /\ ~HasQuote(r)
  /\ RoundTrip

\* ---- C22 ---------------------------------------------------------------
\* a keystroke in the search box
Keystroke == \E val \in TypedTerms : handleSearchChange(val)

\* the debounce timer set by the last keystroke fires
TimerFires == searchTimeoutRef = "pending" /\ searchTimeoutRef' = "fired"

\* a keystroke changes neither the search term the view is computed from nor
\* the view
C22_KeystrokeDeferred == Keystroke => UNCHANGED <<search, filtered>>

\* the search term changes only when the timer fires
C22_AppliedByTimer == search' # search => TimerFires

\* C22: the SKU search is debounced: a keystroke does not change the search
\* term the view is computed from, and does not recompute the view, before the
\* debounce timer has run out without another keystroke; the term changes
\* only in the step in which the timer fires.
C22_SearchDebounced == [][C22_KeystrokeDeferred /\ C22_AppliedByTimer]_vars

\* what the timer does when it fires: nothing of the page changes
C22_TimerCallbackEmpty ==
  [][TimerFires => UNCHANGED <<backend, history, visible, filtered, criteria, fetching, phase>>]_vars

\* a term has been typed and is applied to the view while its timer is pending
C22_AppliedWhilePending ==
  /\ searchTimeoutRef = "pending"
  /\ trim(search) # <<>>
  /\ Len(filtered) < Len(records)

\* ---- C23 ---------------------------------------------------------------
\* a click on one of the sortable headers
HeaderClick == \E i \in 1..Len(SORT_COLUMNS) : handleSort(SORT_COLUMNS[i])

AtDefaults(field, order) == field = "sku_id" /\ order = "asc"

C25_Defaults ==
  phase = "init" =>
    /\ storeFilter = ALL
    /\ categoryFilter = "ALL"
    /\ showCriticalOnly = FALSE
    /\ search = <<>>
    /\ sortField = "sku_id"
    /\ sortOrder = "asc"
    /\ records = <<>>
    /\ lastUpdated = 0

\* a request starts, moves on, succeeds, fails or ends cancelled, or is aborted
FetchEvent == requests' # requests

\* a step of the operator at the filter row or a header
OperatorAction ==
  \/ \E s \in stores : SetStoreFilter(s)
  \/ \E c \in categories : SetCategoryFilter(c)
  \/ \E b \in BOOLEAN : SetShowCriticalOnly(b)
  \/ \E val \in TypedTerms : handleSearchChange(val)
  \/ HeaderClick

\* C25: the session starts with store ALL, category ALL, critical-only
\* false, an empty search term and sort sku_id ascending, no records and no
\* timestamp; no fetch event (start, success, failure, cancellation) changes
\* a filter or sort criterion; a criterion changes only in a step that is an
\* action of the operator.
C25_CriteriaOwnedBySession ==
  /\ [](C25_Defaults)
  /\ [][/\ FetchEvent => UNCHANGED criteria
        /\ criteria' # criteria => OperatorAction]_vars

\* the operator has chosen a store, typed a term and sorted by another
\* column; a first request succeeded and a refresh failed
C25_Witness ==
  /\ storeFilter = S1
  /\ search # <<>>
  /\ sortField = "days_to_stockout"
  /\ Len(requests) = 2
  /\ requests[1].outcome = "ok"
  /\ requests[2].outcome = "error"
  /\ error # Null

\* ---- C26 ---------------------------------------------------------------
\* days is below the threshold n
Below(days, n) == days.kind = "num" /\ days.v < n

\* the status level the documented thresholds give
StatusOfDays(days) ==
  IF Below(days, 3) THEN "Critical" ELSE IF Below(days, 7) THEN "Warning" ELSE "Safe"

\* C26: status levels follow days to stockout: in every snapshot the page
\* holds, a Critical record has fewer than 3 days, a Warning record fewer than
\* 7 and not fewer than 3, every other record is Safe; so the Critical count
\* and the critical-only filter are those of the records with fewer than 3
\* days.
C26_StatusFollowsDays ==
  /\ \A r \in Range(records) : r.status = StatusOfDays(r.days_to_stockout)
  /\ countCritical = Len(SelectSeq(records, LAMBDA r : Below(r.days_to_stockout, 3)))
  /\ FilterCritical(records, TRUE) =
       SelectSeq(records, LAMBDA r : Below(r.days_to_stockout, 3))

\* the page holds a record labelled Critical with five days of stock left,
\* and counts it as Critical
C26_MislabelledHeld ==
  /\ phase = "mounted"
  /\ \E r \in Range(records) : r.status = "Critical" /\ r.days_to_stockout = Num(5)
  /\ countCritical = 1

\* ---- C27 ---------------------------------------------------------------
\* the requests that are outstanding and not cancelled
LiveRequests == { r \in Requests : Live(r) }

\* C27: in every state before teardown at most one request that is not
\* cancelled is outstanding, loading is true exactly when there is one, and
\* error is non-null only while loading is false.
C27_SingleLiveRequest ==
  phase # "unmounted" =>
    /\ Cardinality(LiveRequests) <= 1
    /\ loading <=> LiveRequests # {}
    /\ error # Null => ~loading

\* a third request is outstanding while the second, cancelled by it, has not
\* ended yet, and the first has failed
C27_Witness ==
  /\ phase = "mounted"
  /\ Len(requests) = 3
  /\ requests[1].outcome = "error"
  /\ Cancelled(2)
  /\ Live(3)
  /\ loading
  /\ error = Null

\* ---- C28 ---------------------------------------------------------------
\* the views the filter and sort effect can give for the current records and
\* criteria
CurrentViews ==
  ViewOutcomes(records, storeFilter, categoryFilter, showCriticalOnly, search,
               sortField, sortOrder)

\* C28: after any sequence of fetches, filter changes, searches and header
\* clicks, once the effect has run, the view is the result of filtering and
\* then sorting the current records by the current criteria: the stable sort
\* of the filtered records wherever the comparator orders them consistently.
C28_ViewConsistent ==
  phase # "render" =>
    /\ filtered \in CurrentViews
    /\ ConsistentComparator(Range(Prefiltered), sortField, sortOrder) =>
         filtered = StableSort(Prefiltered, sortField, sortOrder)

\* the document of an export is the encoding of the view of the current
\* records and criteria
C28_ExportEncodesView ==
  csv # <<>> => (filtered \in CurrentViews /\ csv = CsvText(filtered))

\* a category was chosen while a snapshot offered it, a refresh has installed
\* a snapshot without it, and the view, sorted by another column, is empty
C28_Witness ==
  /\ records = BatchC
  /\ lastUpdated = 2
  /\ categoryFilter = "X"
  /\ sortField = "days_to_stockout"
  /\ requests[2].outcome = "ok"
  /\ filtered = <<>>

\* ---- C29 ---------------------------------------------------------------
\* C29: in every state the store filter is ALL or a store_id of the current
\* records and the category filter is ALL or a category of the current
\* records, the options offered being ALL and the distinct values of the
\* current snapshot; also after a refresh that installs a snapshot with other
\* stores or categories.
C29_SelectedIsOffered ==
  /\ storeFilter \in stores
  /\ categoryFilter \in categories

\* the operator only ever chooses an option that is offered, and a selection
\* stops being offered only when a request installs other records
C29_StaleOnlyByRefresh ==
  [][/\ storeFilter' # storeFilter => storeFilter' \in stores
     /\ categoryFilter' # categoryFilter => categoryFilter' \in categories
     /\ (C29_SelectedIsOffered /\ ~C29_SelectedIsOffered') => SuccessInstalls]_vars

\* store S1 was chosen, a refresh has installed a snapshot without it: the
\* filter is still S1 and the view is empty
C29_StaleSelection ==
  /\ phase = "mounted"
  /\ storeFilter = S1
  /\ records = BatchC
  /\ S1 \notin stores
  /\ filtered = <<>>

\* ---- C30 ---------------------------------------------------------------
\* a snapshot with at least one record is loaded and the page shows it
SnapshotLoaded == phase = "mounted" /\ Len(records) > 0

\* C30: whenever a snapshot with at least one record is loaded, the Top
\* Critical list and the Critical-by-store chart are displayed, whatever the
\* filters, also when the filters match no record and the table shows the
\* empty state.
C30_AggregatesVisible == SnapshotLoaded => AnalyticsPanelShown

\* the counts are displayed whenever a snapshot is loaded, and the panel is
\* displayed exactly when the view is not empty
C30_PanelFollowsView ==
  SnapshotLoaded =>
    /\ SummaryCardsShown
    /\ AnalyticsPanelShown <=> filtered # <<>>
    /\ EmptyStateShown <=> filtered = <<>>

\* the snapshot has Critical records, the filters match no record: the empty
\* state is displayed and the panel is not
C30_PanelHidden ==
  /\ SnapshotLoaded
  /\ countCritical > 0
  /\ filtered = <<>>
  /\ EmptyStateShown
  /\ ~AnalyticsPanelShown

====
